---------------------------- MODULE Spec2Model ----------------------------
(* A model of wink-utils' lib/compute_similarity.js: the set, string and     *)
(* bag-of-words similarity functions, and the cached Damerau-Levenshtein     *)
(* engine made by createDLFunction with its matrix kept in a closure.        *)
(* The numbers of the set and string functions are the rationals their      *)
(* doubles stand for, with NaN and the two infinities kept as values of      *)
(* their own; the numbers of cosine, which takes square roots, are IEEE 754  *)
(* doubles, rounded as Math.sqrt, *, / and - round them.                     *)
EXTENDS Integers, Sequences, FiniteSets, TLC

(* ------------------------------ bounds --------------------------------- *)

\* Longest string of a property run of the edit distance.
MaxStrLen == 3
\* Largest explicit maxLen handed to createDLFunction in the life cycle.
MaxLenArg == 2
\* Number of distance calls in one run of the engines' life cycle.
MaxCalls == 2
\* Largest element of a set handed to jaccard and tversky.
MaxElem == 4
\* Longest string handed to jaroWinkler and exact.
MaxJWLen == 6
\* Largest weight of a bag-of-words entry.
MaxWeight == 2

Alphabet == {"a", "b", "c"}
Letters == {"a", "b"}
Tokens == {"the", "cat", "dog"}
Engines == {"e1", "e2"}

StringsOver(A, n) == UNION {[1..k -> A] : k \in 0..n}
Strings == StringsOver(Alphabet, MaxStrLen)

Max2(a, b) == IF a < b THEN b ELSE a
Min2(a, b) == IF a < b THEN a ELSE b

(* ---------------------------- numbers ---------------------------------- *)

\* A number is n/d in lowest terms with d > 0; d = 0 holds the values that
\* are no rationals: 0/0 is NaN, 1/0 is Infinity, -1/0 is -Infinity.
RECURSIVE GCD(_, _)
GCD(a, b) == IF b = 0 THEN a ELSE GCD(b, a % b)

Abs(n) == IF n < 0 THEN -n ELSE n
Sign(n) == IF n < 0 THEN -1 ELSE IF n > 0 THEN 1 ELSE 0

Norm(n, d) ==
    IF d = 0 THEN [n |-> Sign(n), d |-> 0]
    ELSE LET g == GCD(Abs(n), Abs(d))
         IN  [n |-> (Sign(d) * n) \div g, d |-> Abs(d) \div g]

Rat(n, d) == Norm(n, d)
Num(n) == [n |-> n, d |-> 1]
NaN == [n |-> 0, d |-> 0]
IsNaN(x) == x.d = 0 /\ x.n = 0

RNeg(x) == [n |-> -x.n, d |-> x.d]
RAdd(x, y) ==
    IF x.d = 0 /\ y.d = 0 THEN (IF x = y THEN x ELSE NaN)
    ELSE Norm(x.n * y.d + y.n * x.d, x.d * y.d)
RSub(x, y) == RAdd(x, RNeg(y))
RMul(x, y) == Norm(x.n * y.n, x.d * y.d)
RDiv(x, y) == Norm(x.n * y.d, x.d * y.n)
\* JavaScript's <: false when either side is NaN.
RLess(x, y) ==
    /\ ~IsNaN(x)
    /\ ~IsNaN(y)
    /\ IF x.d = 0 /\ y.d = 0 THEN x.n < y.n ELSE x.n * y.d < y.n * x.d
\* Math.abs and Math.min.
RAbs(x) == [n |-> Abs(x.n), d |-> x.d]
RMin(x, y) == IF IsNaN(x) \/ IsNaN(y) THEN NaN ELSE IF RLess(y, x) THEN y ELSE x

(* ----------------------- similarity.set -------------------------------- *)

\* An argument that may be omitted is <<>> or <<v>>.
Omitted == <<>>
IsOmitted(a) == a = <<>>

\* What every function returns.
Result(distance, similarity) == [distance |-> distance, similarity |-> similarity]

\* The forEach over the smaller set, counting the elements the other has.
IntersectSize(sa, sb) ==
    IF Cardinality(sa) < Cardinality(sb)
    THEN Cardinality({element \in sa : element \in sb})
    ELSE Cardinality({element \in sb : element \in sa})

\* The union's size taken without the intersection removed.
JaccardDenominatorSum(sa, sb) == Cardinality(sa) + Cardinality(sb)

\* sa.size + sb.size - intersectSize
JaccardDenominator(sa, sb) ==
    Cardinality(sa) + Cardinality(sb) - IntersectSize(sa, sb)

jaccard(sa, sb) ==
    LET smlrty == RDiv(Num(IntersectSize(sa, sb)), Num(JaccardDenominator(sa, sb)))
    IN  Result(RSub(Num(1), smlrty), smlrty)

\* a = ( alpha === undefined ) ? 0.5 : alpha, and b likewise.
Weight(arg) == IF IsOmitted(arg) THEN Rat(1, 2) ELSE arg[1]

\* intersectSize + ( a * saMinusSBsize ) + ( b * sbMinusSAsize )
TverskyDenominator(sa, sb, alpha, beta) ==
    LET intersectSize == IntersectSize(sa, sb)
        saMinusSBsize == Cardinality(sa) - intersectSize
        sbMinusSAsize == Cardinality(sb) - intersectSize
    IN  RAdd(RAdd(Num(intersectSize), RMul(Weight(alpha), Num(saMinusSBsize))),
             RMul(Weight(beta), Num(sbMinusSAsize)))

tversky(sa, sb, alpha, beta) ==
    LET smlrty == RDiv(Num(IntersectSize(sa, sb)),
                       TverskyDenominator(sa, sb, alpha, beta))
    IN  Result(RSub(Num(1), smlrty), smlrty)

(* ---------------------- similarity.string ------------------------------ *)

exact(s1, s2) ==
    IF s1 = s2 THEN Result(Num(0), Num(1)) ELSE Result(Num(1), Num(0))

\* What jaro( s1, s2 ) of lib/jaro.js may return: a similarity in [0, 1], 1
\* for identical strings, with distance = 1 - similarity.
BaseValues == {Num(0), Rat(1, 2), Rat(7, 10), Rat(9, 10), Num(1)}
jaro(s1, s2) ==
    IF s1 = s2 THEN {Result(Num(0), Num(1))}
    ELSE {Result(RSub(Num(1), v), v) : v \in BaseValues}

\* The scaling factor left uncapped, and left with its sign.
ScalingFactorNoAbs(scalingFactor) ==
    RMin(IF IsOmitted(scalingFactor) THEN Rat(1, 10) ELSE scalingFactor[1], Rat(1, 4))

\* sf = Math.min( Math.abs( sf ), 0.25 ) after the default of 0.1
ScalingFactor(scalingFactor) ==
    RMin(RAbs(IF IsOmitted(scalingFactor) THEN Rat(1, 10) ELSE scalingFactor[1]),
         Rat(1, 4))

\* bt = Math.min( Math.abs( bt ), 1 ) after the default of 0.7
BoostThreshold(boostThreshold) ==
    RMin(RAbs(IF IsOmitted(boostThreshold) THEN Rat(7, 10) ELSE boostThreshold[1]),
         Num(1))

\* The for loop counting the common prefix up to pLimit, from position i
\* (1-indexed here).
RECURSIVE PrefixFrom(_, _, _, _)
PrefixFrom(s1, s2, i, pLimit) ==
    IF i > pLimit THEN 0
    ELSE IF s1[i] = s2[i] THEN 1 + PrefixFrom(s1, s2, i + 1, pLimit)
    ELSE 0

CommonPrefix(s1, s2) == PrefixFrom(s1, s2, 1, Min2(Min2(Len(s1), Len(s2)), 4))

\* jaroWinkler, with ds what the call of jaro returns.
jaroWinkler(s1, s2, scalingFactor, boostThreshold, ds) ==
    IF s1 = s2 THEN Result(Num(0), Num(1))
    ELSE IF RLess(ds.similarity, BoostThreshold(boostThreshold)) THEN ds
    ELSE LET smlrty ==
                 RAdd(ds.similarity,
                      RMul(RMul(Num(CommonPrefix(s1, s2)), ScalingFactor(scalingFactor)),
                           RSub(Num(1), ds.similarity)))
         IN  Result(RSub(Num(1), smlrty), smlrty)

(* ------------------------- similarity.bow ------------------------------ *)

\* The numbers of cosine are IEEE 754 doubles: 0, or sign * m * 2^e with a
\* mantissa m of MantissaBits bits, 2^52 <= m < 2^53.  A mantissa is a natural
\* number written in limbs of base LimbBase, lowest limb first and no zero
\* limb on top (<<>> is 0).  Every operation rounds its exact value to the
\* nearest double, ties to the even mantissa.
LimbBase == 32768
LimbBits == 15
MantissaBits == 53

Limb(x, i) == IF i \in 1..Len(x) THEN x[i] ELSE 0

RECURSIVE Trim(_)
Trim(x) ==
    IF x = <<>> THEN <<>>
    ELSE IF x[Len(x)] = 0 THEN Trim(SubSeq(x, 1, Len(x) - 1))
    ELSE x

\* The natural number n < LimbBase^2 in limbs.
Big(n) == Trim(<<n % LimbBase, n \div LimbBase>>)

RECURSIVE AddFrom(_, _, _, _)
AddFrom(x, y, i, c) ==
    IF i > Len(x) /\ i > Len(y) THEN (IF c = 0 THEN <<>> ELSE <<c>>)
    ELSE LET s == Limb(x, i) + Limb(y, i) + c
         IN  <<s % LimbBase>> \o AddFrom(x, y, i + 1, s \div LimbBase)
BigAdd(x, y) == AddFrom(x, y, 1, 0)

\* x - y for x >= y
RECURSIVE SubFrom(_, _, _, _)
SubFrom(x, y, i, c) ==
    IF i > Len(x) THEN <<>>
    ELSE LET s == Limb(x, i) - Limb(y, i) - c
         IN  IF s < 0 THEN <<s + LimbBase>> \o SubFrom(x, y, i + 1, 1)
             ELSE <<s>> \o SubFrom(x, y, i + 1, 0)
BigSub(x, y) == Trim(SubFrom(x, y, 1, 0))

RECURSIVE LessFrom(_, _, _)
LessFrom(x, y, i) ==
    IF i = 0 THEN FALSE
    ELSE IF x[i] # y[i] THEN x[i] < y[i]
    ELSE LessFrom(x, y, i - 1)
BigLess(x, y) ==
    IF Len(x) # Len(y) THEN Len(x) < Len(y) ELSE LessFrom(x, y, Len(x))

\* x times one limb d
RECURSIVE TimesLimb(_, _, _, _)
TimesLimb(x, d, i, c) ==
    IF i > Len(x) THEN (IF c = 0 THEN <<>> ELSE <<c>>)
    ELSE LET p == x[i] * d + c
         IN  <<p % LimbBase>> \o TimesLimb(x, d, i + 1, p \div LimbBase)
RECURSIVE MulFrom(_, _, _)
MulFrom(x, y, j) ==
    IF j > Len(y) THEN <<>>
    ELSE BigAdd(TimesLimb(x, y[j], 1, 0), <<0>> \o MulFrom(x, y, j + 1))
BigMul(x, y) == Trim(MulFrom(x, y, 1))

BigPow2(k) == [i \in 1..(k \div LimbBits + 1) |->
                  IF i = k \div LimbBits + 1 THEN 2 ^ (k % LimbBits) ELSE 0]
ShiftLeft(x, k) == BigMul(x, BigPow2(k))
ShiftRight(x, k) ==
    LET whole == k \div LimbBits
        part  == k % LimbBits
    IN  IF Len(x) <= whole THEN <<>>
        ELSE Trim([i \in 1..(Len(x) - whole) |->
                      Limb(x, i + whole) \div (2 ^ part)
                      + (Limb(x, i + whole + 1) % (2 ^ part)) * (2 ^ (LimbBits - part))])

RECURSIVE BitsOf(_)
BitsOf(n) == IF n = 0 THEN 0 ELSE 1 + BitsOf(n \div 2)
BitLen(x) == IF x = <<>> THEN 0 ELSE LimbBits * (Len(x) - 1) + BitsOf(x[Len(x)])
Bit(x, i) == (Limb(x, i \div LimbBits + 1) \div (2 ^ (i % LimbBits))) % 2

Double(s, m, e) == [s |-> s, m |-> m, e |-> e]
Zero == Double(0, <<>>, 0)

\* The double nearest to s * n * 2^e, ties to even; inexact says that the
\* exact value lies strictly between n * 2^e and ( n + 1 ) * 2^e.
RoundToDouble(s, n, e, inexact) ==
    LET over == BitLen(n) - MantissaBits
    IN  IF n = <<>> THEN Zero
        ELSE IF over <= 0 THEN Double(s, ShiftLeft(n, -over), e + over)
        ELSE LET kept  == ShiftRight(n, over)
                 below == inexact \/ ShiftLeft(ShiftRight(n, over - 1), over - 1) # n
                 up    == Bit(n, over - 1) = 1 /\ (below \/ Bit(kept, 0) = 1)
                 rounded == IF up THEN BigAdd(kept, <<1>>) ELSE kept
             IN  IF BitLen(rounded) > MantissaBits
                 THEN Double(s, ShiftRight(rounded, 1), e + over + 1)
                 ELSE Double(s, rounded, e + over)

\* The double of an integer the sums of the loop hold.
FromInt(n) == RoundToDouble(Sign(n), Big(Abs(n)), 0, FALSE)
One == FromInt(1)

\* x * y
DoubleMul(x, y) == RoundToDouble(x.s * y.s, BigMul(x.m, y.m), x.e + y.e, FALSE)

\* The largest limb t >= d with t * b <= r, built from bit i downwards.
RECURSIVE DigitFrom(_, _, _, _)
DigitFrom(r, b, d, i) ==
    IF i < 0 THEN d
    ELSE LET t == d + 2 ^ i
         IN  IF BigLess(r, TimesLimb(b, t, 1, 0)) THEN DigitFrom(r, b, d, i - 1)
             ELSE DigitFrom(r, b, t, i - 1)

\* The next n quotient limbs of r / b for a remainder r < b, lowest first, and
\* the remainder left.
RECURSIVE DivLimbs(_, _, _)
DivLimbs(r, b, n) ==
    IF n = 0 THEN [q |-> <<>>, r |-> r]
    ELSE LET shifted == IF r = <<>> THEN <<>> ELSE <<0>> \o r
             digit   == DigitFrom(shifted, b, 0, LimbBits - 1)
             rest    == DivLimbs(BigSub(shifted, TimesLimb(b, digit, 1, 0)), b, n - 1)
         IN  [q |-> rest.q \o <<digit>>, r |-> rest.r]

\* x / y for y # 0
DoubleDiv(x, y) ==
    IF x.s = 0 THEN Zero
    ELSE LET limbs == (MantissaBits + 2) \div LimbBits + 1
             ge    == ~BigLess(x.m, y.m)
             parts == DivLimbs(IF ge THEN BigSub(x.m, y.m) ELSE x.m, y.m, limbs)
             quot  == Trim(parts.q \o (IF ge THEN <<1>> ELSE <<>>))
         IN  RoundToDouble(x.s * y.s, quot, x.e - y.e - limbs * LimbBits,
                           parts.r # <<>>)

\* The limb t at place j, as a number.
LimbAt(t, j) == IF t = 0 THEN <<>> ELSE [i \in 1..(j + 1) |-> IF i = j + 1 THEN t ELSE 0]

\* The largest limb t >= d with ( r + t * LimbBase^j )^2 <= n, built from bit
\* i downwards.
RECURSIVE SqrtDigit(_, _, _, _, _)
SqrtDigit(n, r, j, d, i) ==
    IF i < 0 THEN d
    ELSE LET t    == d + 2 ^ i
             cand == BigAdd(r, LimbAt(t, j))
         IN  IF BigLess(n, BigMul(cand, cand)) THEN SqrtDigit(n, r, j, d, i - 1)
             ELSE SqrtDigit(n, r, j, t, i - 1)

\* The largest number with a square <= n, given its limbs r above place j.
RECURSIVE SqrtLimbs(_, _, _)
SqrtLimbs(n, r, j) ==
    IF j < 0 THEN r
    ELSE SqrtLimbs(n, BigAdd(r, LimbAt(SqrtDigit(n, r, j, 0, LimbBits - 1), j)), j - 1)

\* Math.sqrt( x ) for x >= 0: the root of m * 2^e is taken of the mantissa
\* shifted left by 2 * half bits (one more for an odd e).
DoubleSqrt(x) ==
    IF x.s = 0 THEN Zero
    ELSE LET half   == (MantissaBits + 3) \div 2
             odd    == x.e % 2 # 0
             scaled == ShiftLeft(x.m, IF odd THEN 2 * half + 1 ELSE 2 * half)
             root   == SqrtLimbs(scaled, <<>>, (MantissaBits + 2) \div LimbBits)
         IN  RoundToDouble(1, root, (IF odd THEN x.e - 1 ELSE x.e) \div 2 - half,
                           BigMul(root, root) # scaled)

\* x + y
DoubleAdd(x, y) ==
    IF x.s = 0 THEN y
    ELSE IF y.s = 0 THEN x
    ELSE LET low == Min2(x.e, y.e)
             xm  == ShiftLeft(x.m, x.e - low)
             ym  == ShiftLeft(y.m, y.e - low)
         IN  IF x.s = y.s THEN RoundToDouble(x.s, BigAdd(xm, ym), low, FALSE)
             ELSE IF xm = ym THEN Zero
             ELSE IF BigLess(xm, ym) THEN RoundToDouble(y.s, BigSub(ym, xm), low, FALSE)
             ELSE RoundToDouble(x.s, BigSub(xm, ym), low, FALSE)
\* x - y
DoubleSub(x, y) == DoubleAdd(x, Double(-y.s, y.m, y.e))

RECURSIVE SumOver(_, _, _)
SumOver(ws, f, g) ==
    IF ws = {} THEN 0
    ELSE LET w == CHOOSE x \in ws : TRUE
         IN  f[w] * g[w] + SumOver(ws \ {w}, f, g)

\* ab: a with the words of b it lacks set to 0 (ab[ w ] = ab[ w ] || 0).
FillAB(a, b) ==
    [w \in DOMAIN a \cup DOMAIN b |-> IF w \in DOMAIN a /\ a[w] # 0 THEN a[w] ELSE 0]
\* ba: 0 for the words of a, then b's own.
FillBA(a, b) ==
    [w \in DOMAIN a \cup DOMAIN b |-> IF w \in DOMAIN b THEN b[w] ELSE 0]

\* Math.sqrt of the sums of squares the bows give
MathSqrt == [n \in 0..(Cardinality(Tokens) * MaxWeight * MaxWeight) |-> DoubleSqrt(FromInt(n))]

\* ( sa2 && sb2 ) ? ( saxb / ( Math.sqrt( sa2 ) * Math.sqrt( sb2 ) ) ) : 0
CosineValue(saxb, sa2, sb2) ==
    IF sa2 # 0 /\ sb2 # 0
    THEN DoubleDiv(FromInt(saxb), DoubleMul(MathSqrt[sa2], MathSqrt[sb2]))
    ELSE Zero

cosine(a, b) ==
    LET ab  == FillAB(a, b)
        ba  == FillBA(a, b)
        smlrty == CosineValue(SumOver(DOMAIN ab, ab, ba),
                              SumOver(DOMAIN ab, ab, ab),
                              SumOver(DOMAIN ab, ba, ba))
    IN  Result(DoubleSub(One, smlrty), smlrty)

(* ------------------- createDLFunction: the matrix ---------------------- *)

\* maxLen || 60
DefaultMaxLen == 60
\* The value read from an array slot that was never written (a hole of
\* new Array(max)), and the NaN that arithmetic on it gives; edit costs are
\* never negative, so neither is mistaken for one.
Undefined == -1
NaNCell == -2

\* var max = ( maxLen || 60 ) + 1;
MaxOf(arg) ==
    (IF IsOmitted(arg) \/ arg[1] = 0 THEN DefaultMaxLen ELSE arg[1]) + 1

\* matrix = new Array( max ), every row a new Array( max ): an array is its
\* length and its slots, listed up to the last one written (index j at
\* position j + 1); the slots after it are holes.
NewArray(n) == [length |-> n, slot |-> <<>>]
NewMatrix(max) == [i \in 0..(max - 1) |-> NewArray(max)]

RowCount(m) == Cardinality(DOMAIN m)
RowLength(m, i) == m[i].length

\* matrix[ i ][ j ], read.
ReadCell(m, i, j) ==
    IF i \in DOMAIN m /\ j < Len(m[i].slot) THEN m[i].slot[j + 1] ELSE Undefined

\* The state of one call: the matrix, the slots this call has written, the
\* slots it has read or written, whether it read a slot it had not written
\* before, and whether it threw.
CallState(m) == [m |-> m, wr |-> {}, used |-> {}, stale |-> FALSE, threw |-> FALSE]

\* a[ j ] = v; a write past the end of an array lengthens it.
PutSlot(a, j, v) ==
    [length |-> Max2(a.length, j + 1),
     slot   |-> IF j < Len(a.slot) THEN [a.slot EXCEPT ![j + 1] = v]
                ELSE a.slot \o [k \in 1..(j - Len(a.slot)) |-> Undefined] \o <<v>>]

\* matrix[ i ][ j ] = v
WriteCell(st, i, j, v) ==
    [st EXCEPT !.m[i] = PutSlot(@, j, v),
               !.wr = @ \cup {<<i, j>>},
               !.used = @ \cup {<<i, j>>}]

\* The reads of the slots cs.
NoteReads(st, cs) ==
    [st EXCEPT !.stale = @ \/ ~(cs \subseteq st.wr), !.used = @ \cup cs]

\* Math.min without the deletion term.
MinCellNoDeletion(a, b, c) == IF a < 0 \/ b < 0 THEN NaNCell ELSE Min2(a, b)

\* x + 1, Math.min and < on slot values.
Plus1(v) == IF v < 0 THEN NaNCell ELSE v + 1
MinCell(a, b, c) ==
    IF a < 0 \/ b < 0 \/ c < 0 THEN NaNCell ELSE Min2(a, Min2(b, c))
LessCell(a, b) == a >= 0 /\ b >= 0 /\ a < b

\* The first loop run one row too far, and the second one column short.
RECURSIVE InitRowsOneMore(_, _, _)
InitRowsOneMore(st, i, s2Len) ==
    IF i > s2Len + 1 THEN st
    ELSE IF i \notin DOMAIN st.m
         THEN [st EXCEPT !.threw = TRUE, !.used = @ \cup {<<i, 0>>}]
         ELSE InitRowsOneMore(WriteCell(st, i, 0, i), i + 1, s2Len)

RECURSIVE InitColsOneShort(_, _, _)
InitColsOneShort(st, j, s1Len) ==
    IF j >= s1Len THEN st
    ELSE InitColsOneShort(WriteCell(st, 0, j, j), j + 1, s1Len)

\* for ( i = 0; i < s2Len + 1; i += 1 ) matrix[ i ][ 0 ] = i;
\* matrix[ i ] is undefined past the last row, and the assignment throws.
RECURSIVE InitRows(_, _, _)
InitRows(st, i, s2Len) ==
    IF i > s2Len THEN st
    ELSE IF i \notin DOMAIN st.m
         THEN [st EXCEPT !.threw = TRUE, !.used = @ \cup {<<i, 0>>}]
         ELSE InitRows(WriteCell(st, i, 0, i), i + 1, s2Len)

\* for ( j = 0; j < s1Len + 1; j += 1 ) matrix[ 0 ][ j ] = j;
RECURSIVE InitCols(_, _, _)
InitCols(st, j, s1Len) ==
    IF j > s1Len THEN st ELSE InitCols(WriteCell(st, 0, j, j), j + 1, s1Len)

\* The transpose check of slot (i, j); the strings are 1-indexed here, so
\* s.charAt( k - 1 ) is s[k].
Swapped(i, j, s1, s2) ==
    i > 1 /\ j > 1 /\ s2[i] = s1[j - 1] /\ s2[i - 1] = s1[j]

\* The transpose check on slot (i, j), which holds cur: lines 203 to 207.
Transpose(st, i, j, s1, s2, cur) ==
    IF Swapped(i, j, s1, s2)
    THEN IF LessCell(ReadCell(st.m, i - 2, j - 2), cur)
         THEN WriteCell(NoteReads(st, {<<i - 2, j - 2>>, <<i, j>>}), i, j,
                        ReadCell(st.m, i - 2, j - 2) + 1)
         ELSE NoteReads(st, {<<i - 2, j - 2>>, <<i, j>>})
    ELSE st

\* Slot (i, j) of two characters that differ.
Differ(st, i, j, s1, s2, cur) ==
    Transpose(WriteCell(
                NoteReads(st, {<<i - 1, j - 1>>, <<i, j - 1>>, <<i - 1, j>>}),
                i, j, cur),
              i, j, s1, s2, cur)

\* The body of the inner loop for one (i, j).
FillCell(st, i, j, s1, s2) ==
    IF s2[i] = s1[j]
    THEN WriteCell(NoteReads(st, {<<i - 1, j - 1>>}), i, j,
                   ReadCell(st.m, i - 1, j - 1))
    ELSE Differ(st, i, j, s1, s2,
                MinCell(Plus1(ReadCell(st.m, i - 1, j - 1)),
                        Plus1(ReadCell(st.m, i, j - 1)),
                        Plus1(ReadCell(st.m, i - 1, j))))

\* for ( i = 1; i <= s2Len; ... ) for ( j = 1; j <= s1Len; ... )
RECURSIVE FillFrom(_, _, _, _, _)
FillFrom(st, i, j, s1, s2) ==
    IF i > Len(s2) THEN st
    ELSE IF j > Len(s1) THEN FillFrom(st, i + 1, 1, s1, s2)
    ELSE FillFrom(FillCell(st, i, j, s1, s2), i, j + 1, s1, s2)

\* The similarity taken over the shorter length.
DLSimilarityByShorter(d, s1Len, s2Len) ==
    IF d < 0 THEN NaN ELSE RSub(Num(1), RDiv(Num(d), Num(Min2(s1Len, s2Len))))

\* 1 - ( matrix[ s2Len ][ s1Len ] / Math.max( s1Len, s2Len ) )
DLSimilarity(d, s1Len, s2Len) ==
    IF d < 0 THEN NaN ELSE RSub(Num(1), RDiv(Num(d), Num(Max2(s1Len, s2Len))))

\* What a call returns (or that it threw), the matrix it leaves, the slots
\* it used and whether it read one it had not written.
Outcome(st, threw, distance, similarity) ==
    [threw |-> threw, m |-> st.m, stale |-> st.stale, used |-> st.used,
     distance |-> distance, similarity |-> similarity]

\* return { distance: matrix[ s2Len ][ s1Len ], similarity: ... }
Return(st, d, s1Len, s2Len) ==
    Outcome(st, FALSE, d, DLSimilarity(d, s1Len, s2Len))

Fill(st, s1, s2) ==
    IF st.threw
    THEN Outcome(st, TRUE, Undefined, NaN)
    ELSE LET fin == FillFrom(InitCols(st, 0, Len(s1)), 1, 1, s1, s2)
         IN  Return(NoteReads(fin, {<<Len(s2), Len(s1)>>}),
                    ReadCell(fin.m, Len(s2), Len(s1)), Len(s1), Len(s2))

\* The call with two empty strings taken as identical.
DLCallEmptyAlike(m, s1, s2) ==
    IF Len(s2) = 0
    THEN Outcome(CallState(m), FALSE, Len(s1), IF Len(s1) = 0 THEN Num(1) ELSE Num(0))
    ELSE IF Len(s1) = 0
    THEN Outcome(CallState(m), FALSE, Len(s2), Num(0))
    ELSE Fill(InitRows(CallState(m), 0, Len(s2)), s1, s2)

\* The function createDLFunction returns, applied to ( s1, s2 ) with the
\* closure's matrix m.
DLCall(m, s1, s2) ==
    IF Len(s2) = 0
    THEN Outcome(CallState(m), FALSE, Len(s1), Num(0))
    ELSE IF Len(s1) = 0
    THEN Outcome(CallState(m), FALSE, Len(s2), Num(0))
    ELSE Fill(InitRows(CallState(m), 0, Len(s2)), s1, s2)

(* ------------------------------ state ---------------------------------- *)

VARIABLES
    maxLen,   \* per engine: the argument createDLFunction was called with
    max,      \* per engine: the closure's max; 0 before the engine is created
    matrix,   \* per engine: the closure's matrix
    within,   \* per engine: every call so far had both lengths <= max - 1
    ncalls,   \* distance calls made so far
    inp,      \* the inputs a property run was started with
    log       \* the results returned: the last one, or all of a property run

vars == <<maxLen, max, matrix, within, ncalls, inp, log>>

NoMatrix == <<>>
NoInput == [op |-> "none"]

\* What a distance call leaves in the log.
DLRecord(e, s1, s2, r) ==
    [op |-> "distance", e |-> e, s1 |-> s1, s2 |-> s2,
     threw |-> r.threw, distance |-> r.distance, similarity |-> r.similarity,
     stale |-> r.stale, used |-> r.used]

(* ----------------------- the engines' life cycle ----------------------- *)

MaxLenArgs == {Omitted} \cup {<<n>> : n \in 0..MaxLenArg}
CallStrings == {<<>>, <<"a">>, <<"a", "b">>, <<"b", "a">>}

NoEngines ==
    /\ maxLen = [e \in Engines |-> Omitted]
    /\ max = [e \in Engines |-> 0]
    /\ matrix = [e \in Engines |-> NoMatrix]
    /\ within = [e \in Engines |-> TRUE]
    /\ ncalls = 0

Init ==
    /\ NoEngines
    /\ inp = NoInput
    /\ log = <<>>

\* similarity.string.createDLFunction( maxLen )
Create(e, arg) ==
    /\ max[e] = 0
    /\ maxLen' = [maxLen EXCEPT ![e] = arg]
    /\ max' = [max EXCEPT ![e] = MaxOf(arg)]
    /\ matrix' = [matrix EXCEPT ![e] = NewMatrix(MaxOf(arg))]
    /\ UNCHANGED <<within, ncalls, inp, log>>

\* One call of engine e's function on ( s1, s2 ), start to end.
Distance(e, s1, s2) ==
    /\ max[e] > 0
    /\ ncalls < MaxCalls
    /\ \E r \in {DLCall(matrix[e], s1, s2)} :
           /\ matrix' = [matrix EXCEPT ![e] = r.m]
           /\ log' = <<DLRecord(e, s1, s2, r)>>
    /\ within' = [within EXCEPT ![e] = @ /\ Len(s1) < max[e] /\ Len(s2) < max[e]]
    /\ ncalls' = ncalls + 1
    /\ UNCHANGED <<maxLen, max, inp>>

Next ==
    \/ \E e \in Engines, arg \in MaxLenArgs : Create(e, arg)
    \/ \E e \in Engines, s1 \in CallStrings, s2 \in CallStrings : Distance(e, s1, s2)

Spec == Init /\ [][Next]_vars

(* ------------------- property runs of one engine ----------------------- *)

\* An engine made by createDLFunction( MaxStrLen ), and the calls to make on
\* it, in order.
OneEngine ==
    /\ maxLen = [e \in Engines |-> IF e = "e1" THEN <<MaxStrLen>> ELSE Omitted]
    /\ max = [e \in Engines |-> IF e = "e1" THEN MaxOf(<<MaxStrLen>>) ELSE 0]
    /\ matrix = [e \in Engines |->
                    IF e = "e1" THEN NewMatrix(MaxOf(<<MaxStrLen>>)) ELSE NoMatrix]
    /\ within = [e \in Engines |-> TRUE]
    /\ ncalls = 0
    /\ log = <<>>

\* ( s1, s2 ) and then ( s2, s1 ).
InitPair ==
    /\ OneEngine
    /\ inp \in {[op |-> "distance", calls |-> <<<<s1, s2>>, <<s2, s1>>>>] :
                    s1 \in Strings, s2 \in Strings}

\* ( s1, s2 ), ( s1, s3 ) and ( s3, s2 ).
InitTriple ==
    /\ OneEngine
    /\ inp \in {[op |-> "distance", calls |-> <<<<s1, s2>>, <<s1, s3>>, <<s3, s2>>>>] :
                    s1 \in Strings, s2 \in Strings, s3 \in Strings}

\* The next call of the run.
RunCall ==
    /\ inp.op = "distance"
    /\ ncalls < Len(inp.calls)
    /\ \E c \in {inp.calls[ncalls + 1]} :
         \E r \in {DLCall(matrix["e1"], c[1], c[2])} :
           /\ matrix' = [matrix EXCEPT !["e1"] = r.m]
           /\ log' = Append(log, DLRecord("e1", c[1], c[2], r))
    /\ ncalls' = ncalls + 1
    /\ UNCHANGED <<maxLen, max, within, inp>>

SpecPair == InitPair /\ [][RunCall]_vars
SpecTriple == InitTriple /\ [][RunCall]_vars

(* ---------------- property runs of the other functions ---------------- *)

Sets == SUBSET (1..MaxElem)
Weights == {Rat(-1, 2), Num(0), Rat(1, 2), Num(1), Num(2)}
OptionalWeights == {Omitted} \cup {<<w>> : w \in Weights}
Factors == {Omitted, <<Rat(-1, 5)>>, <<Num(1)>>}
Thresholds == {Omitted, <<Rat(-1, 2)>>, <<Num(2)>>}
\* jaroWinkler reads its strings through s1 === s2, their lengths and their
\* common prefix only: s1 is a run of one letter, s2 any string of two.
JWRuns == StringsOver({"a"}, MaxJWLen)
JWStrings == StringsOver(Letters, MaxJWLen)
Bows == UNION {[ws -> 0..MaxWeight] : ws \in SUBSET Tokens}

SetInputs ==
    {[op |-> "set", sa |-> sa, sb |-> sb, alpha |-> alpha, beta |-> beta] :
        sa \in Sets, sb \in Sets, alpha \in OptionalWeights, beta \in OptionalWeights}
ExactInputs == {[op |-> "exact", s1 |-> s1, s2 |-> s2] : s1 \in Strings, s2 \in Strings}
JWInputs ==
    {[op |-> "jaroWinkler", s1 |-> s1, s2 |-> s2, scalingFactor |-> sf,
      boostThreshold |-> bt] :
        s1 \in JWRuns, s2 \in JWStrings, sf \in Factors, bt \in Thresholds}
BowInputs == {[op |-> "bow", a |-> a, b |-> b] : a \in Bows, b \in Bows}

InitMetrics ==
    /\ NoEngines
    /\ inp \in SetInputs \cup ExactInputs \cup JWInputs \cup BowInputs
    /\ log = <<>>

Called(name) == \E k \in 1..Len(log) : log[k].op = name

Return1(name, r) == log' = Append(log, [op |-> name] @@ r)

CallJaccard ==
    /\ inp.op = "set"
    /\ ~Called("jaccard")
    /\ Return1("jaccard", jaccard(inp.sa, inp.sb))
    /\ UNCHANGED <<maxLen, max, matrix, within, ncalls, inp>>

CallTversky ==
    /\ inp.op = "set"
    /\ ~Called("tversky")
    /\ Return1("tversky", tversky(inp.sa, inp.sb, inp.alpha, inp.beta))
    /\ UNCHANGED <<maxLen, max, matrix, within, ncalls, inp>>

CallExact ==
    /\ inp.op = "exact"
    /\ ~Called("exact")
    /\ Return1("exact", exact(inp.s1, inp.s2))
    /\ UNCHANGED <<maxLen, max, matrix, within, ncalls, inp>>

CallJaroWinkler ==
    /\ inp.op = "jaroWinkler"
    /\ ~Called("jaroWinkler")
    /\ \E ds \in jaro(inp.s1, inp.s2) :
           Return1("jaroWinkler",
                   [base |-> ds] @@
                   jaroWinkler(inp.s1, inp.s2, inp.scalingFactor,
                               inp.boostThreshold, ds))
    /\ UNCHANGED <<maxLen, max, matrix, within, ncalls, inp>>

CallCosine ==
    /\ inp.op = "bow"
    /\ ~Called("cosine")
    /\ Return1("cosine", cosine(inp.a, inp.b))
    /\ UNCHANGED <<maxLen, max, matrix, within, ncalls, inp>>

NextMetrics ==
    \/ CallJaccard
    \/ CallTversky
    \/ CallExact
    \/ CallJaroWinkler
    \/ CallCosine

SpecMetrics == InitMetrics /\ [][NextMetrics]_vars

(* ------------------------------ claims --------------------------------- *)

\* The strings one edit away from s: a deletion, an insertion, a substitution
\* or a transposition of two adjacent characters, over Alphabet and up to
\* MaxStrLen + 1 characters.
Edits(s) ==
    LET n == Len(s)
    IN  {SubSeq(s, 1, i - 1) \o SubSeq(s, i + 1, n) : i \in 1..n}
        \cup (IF n > MaxStrLen THEN {}
              ELSE {SubSeq(s, 1, i) \o <<c>> \o SubSeq(s, i + 1, n) :
                        i \in 0..n, c \in Alphabet})
        \cup {[s EXCEPT ![i] = c] : i \in 1..n, c \in Alphabet}
        \cup {[s EXCEPT ![i] = s[i + 1], ![i + 1] = s[i]] : i \in 1..(n - 1)}

\* The least number of edits that turn a string of S into t, S being k edits
\* from where the count started.
RECURSIVE EditsFrom(_, _, _)
EditsFrom(S, t, k) ==
    IF t \in S THEN k ELSE EditsFrom(S \cup UNION {Edits(s) : s \in S}, t, k + 1)

MinimumEdits(s1, s2) == EditsFrom({s1}, s2, 0)

\* x <= y of two numbers, neither of them NaN.
RLeq(x, y) == ~IsNaN(x) /\ ~IsNaN(y) /\ ~RLess(y, x)

Returned == {log[k] : k \in 1..Len(log)}
NonEmpty(r) == Len(r.s1) > 0 /\ Len(r.s2) > 0

\* C1: for all non-empty s1, s2 of at most maxLen characters, the distance an
\* engine returns is the minimum number of deletions, insertions,
\* substitutions and adjacent transpositions that turn s1 into s2.
C1_DistanceIsMinimumEdits ==
    \A r \in Returned : NonEmpty(r) => r.distance = MinimumEdits(r.s1, r.s2)

\* C2: the triangle property: for the calls ( s1, s2 ), ( s1, s3 ), ( s3, s2 )
\* of one engine, distance( s1, s2 ) <= distance( s1, s3 ) + distance( s3, s2 ).
C2_Triangle ==
    Len(log) = 3 => log[1].distance <= log[2].distance + log[3].distance

\* C3: the calls ( s1, s2 ) and ( s2, s1 ) of one engine return the same
\* distance and the same similarity, empty strings included.
C3_Symmetric ==
    Len(log) = 2 =>
        /\ log[2].s1 = log[1].s2 /\ log[2].s2 = log[1].s1
        /\ log[1].distance = log[2].distance
        /\ log[1].similarity = log[2].similarity

C3_Witness ==
    /\ Len(log) = 2
    /\ NonEmpty(log[1])
    /\ Len(log[1].s1) < Len(log[1].s2)
    /\ log[1].distance > Len(log[1].s2) - Len(log[1].s1)

\* C5: the similarity an engine returns is between 0 and 1: for non-empty
\* inputs of at most maxLen characters the distance never exceeds the length
\* of the longer one.
C5_SimilarityInUnitInterval ==
    \A r \in Returned :
        /\ RLeq(Num(0), r.similarity)
        /\ RLeq(r.similarity, Num(1))
        /\ NonEmpty(r) => r.distance <= Max2(Len(r.s1), Len(r.s2))

C5_Witness ==
    \E r \in Returned :
        /\ NonEmpty(r)
        /\ Len(r.s1) # Len(r.s2)
        /\ r.distance = Max2(Len(r.s1), Len(r.s2))
        /\ r.similarity = Num(0)

\* C6: when either input is empty the call returns the length of the other
\* input as the distance and 0 as the similarity, also when both are empty,
\* and touches no slot of the matrix.
C6_EmptyShortCircuit ==
    \A r \in Returned :
        Len(r.s1) = 0 \/ Len(r.s2) = 0 =>
            /\ ~r.threw
            /\ r.distance = (IF Len(r.s2) = 0 THEN Len(r.s1) ELSE Len(r.s2))
            /\ r.similarity = Num(0)
            /\ r.used = {}

C6_Witness ==
    /\ Len(log) = 2
    /\ log[1].s1 = <<>> /\ log[1].s2 = <<>>
    /\ log[2].distance = 0 /\ log[2].similarity = Num(0)

\* distance = 1 - similarity and 0 <= similarity <= 1, of rationals.
UnitResult(r) ==
    /\ r.distance = RSub(Num(1), r.similarity)
    /\ RLeq(Num(0), r.similarity)
    /\ RLeq(r.similarity, Num(1))

\* x <= y of doubles
DoubleLeq(x, y) == LET d == DoubleSub(y, x) IN d.s >= 0

\* The same of the doubles cosine returns.
UnitDoubleResult(r) ==
    /\ r.distance = DoubleSub(One, r.similarity)
    /\ DoubleLeq(Zero, r.similarity)
    /\ DoubleLeq(r.similarity, One)

\* C4: for jaccard, tversky with any alpha and beta (negative ones included),
\* exact, jaroWinkler with any scalingFactor and boostThreshold and cosine,
\* distance = 1 - similarity and 0 <= similarity <= 1 whenever the
\* denominator is not zero.
C4_UnitInterval ==
    \A r \in Returned :
        /\ r.op = "jaccard" /\ JaccardDenominator(inp.sa, inp.sb) # 0 => UnitResult(r)
        /\ (/\ r.op = "tversky"
            /\ TverskyDenominator(inp.sa, inp.sb, inp.alpha, inp.beta) # Num(0))
               => UnitResult(r)
        /\ r.op \in {"exact", "jaroWinkler"} => UnitResult(r)
        /\ r.op = "cosine" => UnitDoubleResult(r)

\* C7: the similarity jaroWinkler returns is at least the similarity jaro
\* returns for the pair (1 for identical strings), for every scalingFactor and
\* boostThreshold; below the boost threshold it is jaro's result unchanged.
C7_NeverBelowJaro ==
    \A r \in Returned :
        r.op = "jaroWinkler" =>
            /\ RLeq(r.base.similarity, r.similarity)
            /\ (/\ inp.s1 # inp.s2
                /\ RLess(r.base.similarity, BoostThreshold(inp.boostThreshold)))
               => Result(r.distance, r.similarity) = r.base

C7_Witness ==
    \E r \in Returned :
        /\ r.op = "jaroWinkler"
        /\ inp.scalingFactor = <<Rat(-1, 5)>>
        /\ inp.boostThreshold = <<Rat(-1, 2)>>
        /\ r.base.similarity = Rat(7, 10)
        /\ Len(inp.s1) = 5
        /\ Len(inp.s2) = 6
        /\ SubSeq(inp.s2, 1, 5) = inp.s1
        /\ CommonPrefix(inp.s1, inp.s2) = 4
        /\ r.similarity = Rat(47, 50)

\* C8: for sets that are not both empty, tversky( A, B, 1, 1 ) returns the
\* similarity and the distance jaccard( A, B ) returns, whichever set is the
\* smaller one.
C8_TverskyOneOneIsJaccard ==
    \A r \in Returned, q \in Returned :
        (/\ r.op = "tversky"
         /\ q.op = "jaccard"
         /\ inp.alpha = <<Num(1)>> /\ inp.beta = <<Num(1)>>
         /\ inp.sa \cup inp.sb # {})
        => r.similarity = q.similarity /\ r.distance = q.distance

C8_Witness ==
    /\ Len(log) = 2
    /\ inp.op = "set"
    /\ inp.alpha = <<Num(1)>> /\ inp.beta = <<Num(1)>>
    /\ Cardinality(inp.sa) < Cardinality(inp.sb)
    /\ inp.sa \cap inp.sb # {}
    /\ inp.sa \ inp.sb # {}

\* C9: a call whose engine has only had calls with inputs of at most maxLen
\* characters returns what a freshly created engine returns for the same
\* arguments, and reads no slot it has not written itself.
C9_SameAsFreshEngine ==
    \A r \in Returned :
        within[r.e] =>
            /\ ~r.threw
            /\ ~r.stale
            /\ \E f \in {DLCall(NewMatrix(max[r.e]), r.s1, r.s2)} :
                   r.distance = f.distance /\ r.similarity = f.similarity

\* The slots of m that hold a value.
Written(m) ==
    {c \in (DOMAIN m) \X (0..MaxStrLen) : ReadCell(m, c[1], c[2]) # Undefined}

C9_Witness ==
    \E r \in Returned :
        /\ ncalls = 2
        /\ within[r.e]
        /\ NonEmpty(r)
        /\ r.distance > 0
        /\ Written(matrix[r.e]) \ r.used # {}

\* C10: an engine made with a positive maxLen, or with none (60), that has
\* only had calls with inputs of at most maxLen characters has a matrix of
\* exactly maxLen + 1 rows of maxLen + 1 slots, and its calls use row and
\* column indices in 0..maxLen only.
Capacity(arg) == IF IsOmitted(arg) THEN 60 ELSE arg[1]

C10_MatrixKeepsItsBounds ==
    \A e \in Engines :
        (max[e] > 0 /\ within[e] /\ (IsOmitted(maxLen[e]) \/ maxLen[e][1] > 0)) =>
            /\ RowCount(matrix[e]) = Capacity(maxLen[e]) + 1
            /\ \A i \in DOMAIN matrix[e] :
                   RowLength(matrix[e], i) = Capacity(maxLen[e]) + 1
            /\ \A r \in Returned :
                   r.e = e => \A c \in r.used :
                                  /\ c[1] \in 0..Capacity(maxLen[e])
                                  /\ c[2] \in 0..Capacity(maxLen[e])

C10_Witness ==
    \E r \in Returned :
        /\ within[r.e]
        /\ maxLen[r.e] = <<2>>
        /\ <<2, 2>> \in r.used
        /\ ncalls = 2

=============================================================================
